---- MODULE Spec2Model ----
(***************************************************************************)
(* A small-step model of the recursive-descent HTML parser of              *)
(* src/src/dom/html.rs and of the node model of src/src/dom/node.rs.       *)
(*                                                                         *)
(* A Rust String is modelled as the sequence of its UTF-8 bytes, a char as *)
(* its code point, the parser's `pos` as a byte offset.  Every function of *)
(* the parser is a frame on an explicit call stack; the labels of the      *)
(* program counters are the source lines of html.rs.                       *)
(***************************************************************************)
EXTENDS Integers, Sequences, FiniteSets, TLC

VARIABLES
    input,        \* Parser.input: the bytes of the source String
    pos,          \* Parser.pos: a byte offset into input
    stack,        \* the active calls of the parser's methods, with their locals
    status,       \* "running", "done" (parse returned) or "panic"
    panic,        \* the line of the assertion or unwrap that panicked
    result,       \* the Node parse returned
    classes_out,  \* what ElementData::classes returned, once asked
    steps         \* the number of steps the parse has taken

vars == <<input, pos, stack, status, panic, result, classes_out, steps>>

(***************************************************************************)
(* Bounds of the checked inputs.                                           *)
(***************************************************************************)
MaxLen == 5
MaxFrags == 3
MaxClassLen == 3

(***************************************************************************)
(* Characters the source names (code points).                              *)
(***************************************************************************)
LT == 60
GT == 62
SLASH == 47
EQUALS == 61
DQUOTE == 34
SQUOTE == 39
SPACE == 32
LowerA == 97
LowerZ == 122
UpperA == 65
UpperZ == 90
Digit0 == 48
Digit9 == 57

(***************************************************************************)
(* UTF-8: String storage (bytes) against chars (code points).              *)
(***************************************************************************)
\* A width that takes every char for one byte.
len_one_byte(c) == 1

len_utf8(c) == IF c < 128 THEN 1 ELSE IF c < 2048 THEN 2 ELSE IF c < 65536 THEN 3 ELSE 4

EncodeUtf8(c) ==
    IF c < 128 THEN <<c>>
    ELSE IF c < 2048 THEN <<192 + (c \div 64), 128 + (c % 64)>>
    ELSE IF c < 65536 THEN <<224 + (c \div 4096), 128 + ((c \div 64) % 64), 128 + (c % 64)>>
    ELSE <<240 + (c \div 262144), 128 + ((c \div 4096) % 64),
           128 + ((c \div 64) % 64), 128 + (c % 64)>>

RECURSIVE Utf8(_)
\* The bytes of a String holding the chars cs.
Utf8(cs) == IF cs = <<>> THEN <<>> ELSE EncodeUtf8(Head(cs)) \o Utf8(Tail(cs))

\* str::is_char_boundary
is_char_boundary(s, i) ==
    \/ i = 0
    \/ i = Len(s)
    \/ (i < Len(s) /\ ~(s[i + 1] \in 128..191))

\* The char whose encoding starts at byte offset p (p a boundary, p < Len(s)).
DecodeAt(s, p) ==
    LET b == s[p + 1] IN
    IF b < 128 THEN b
    ELSE IF b < 224 THEN (b - 192) * 64 + (s[p + 2] - 128)
    ELSE IF b < 240 THEN (b - 224) * 4096 + (s[p + 2] - 128) * 64 + (s[p + 3] - 128)
    ELSE (b - 240) * 262144 + (s[p + 2] - 128) * 4096 + (s[p + 3] - 128) * 64
         + (s[p + 4] - 128)

\* self.input[self.pos..].chars().next(): "panic" when the slice is taken off
\* a char boundary, "none" at the end of the input, else the next char.
Peek(s, p) ==
    IF ~is_char_boundary(s, p) THEN [tag |-> "panic", ch |-> 0]
    ELSE IF p = Len(s) THEN [tag |-> "none", ch |-> 0]
    ELSE [tag |-> "some", ch |-> DecodeAt(s, p)]

\* Parser::eof
eof(s, p) == p >= Len(s)

\* Parser::starts_with, for a prefix of ASCII chars.
starts_with(s, p, prefix) ==
    /\ p + Len(prefix) <= Len(s)
    /\ SubSeq(s, p + 1, p + Len(prefix)) = prefix

\* A consume_char that leaves the cursor where it was.
AdvanceNone(p, ch) == p

\* The cursor after Parser::consume_char has consumed the char ch at p.
Advance(p, ch) == p + 0 + len_utf8(ch)

\* Parser::consume_char: the char returned and the cursor afterwards; at the
\* end of the input a space and the cursor unchanged.
consume_char(s, p) ==
    LET n == Peek(s, p) IN
    IF n.tag = "panic" THEN [tag |-> "panic", ch |-> 0, pos |-> p]
    ELSE IF n.tag = "some" THEN [tag |-> "ok", ch |-> n.ch, pos |-> Advance(p, n.ch)]
    ELSE [tag |-> "ok", ch |-> SPACE, pos |-> p]

\* char::is_whitespace (the Unicode White_Space property).
is_whitespace(c) ==
    \/ c \in 9..13
    \/ c = SPACE
    \/ c \in {133, 160, 5760, 8232, 8233, 8239, 8287, 12288}
    \/ c \in 8192..8202

\* The predicate of parse_tag_name.
is_tag_name_char(c) ==
    \/ c \in LowerA..LowerZ
    \/ c \in UpperA..UpperZ
    \/ c \in Digit0..Digit9

(***************************************************************************)
(* The node model (node.rs).  An AttrMap is the set of its <<name, value>> *)
(* pairs, no two with the same name.                                       *)
(***************************************************************************)
text(data) == [node_type |-> "Text", data |-> data, children |-> <<>>]

element(name, attrs, children) ==
    [node_type |-> "Element", tag_name |-> name, attributes |-> attrs,
     children |-> children]

\* An insert that keeps the value a name already has.
AttrInsertKeepFirst(attrs, name, value) ==
    IF \E p \in attrs : p[1] = name THEN attrs ELSE attrs \cup {<<name, value>>}

\* HashMap::insert
AttrInsert(attrs, name, value) ==
    {p \in attrs : p[1] # name} \cup {<<name, value>>}

\* HashMap::get as an Option: <<>> for None, <<v>> for Some(v).
AttrGet(attrs, name) ==
    IF \E p \in attrs : p[1] = name
    THEN <<(CHOOSE p \in attrs : p[1] = name)[2]>>
    ELSE <<>>

RECURSIVE SplitFrom(_, _, _)
\* str::split(sep) from the piece cur on: the pieces between the separators.
SplitFrom(s, sep, cur) ==
    IF s = <<>> THEN <<cur>>
    ELSE IF Head(s) = sep THEN <<cur>> \o SplitFrom(Tail(s), sep, <<>>)
    ELSE SplitFrom(Tail(s), sep, Append(cur, Head(s)))

split(s, sep) == SplitFrom(s, sep, <<>>)

Range(f) == {f[i] : i \in DOMAIN f}

\* The "class" key of ElementData::classes.
ClassKey == <<99, 108, 97, 115, 115>>

\* ElementData::classes
classes(attributes) ==
    LET got == AttrGet(attributes, ClassKey) IN
    IF got # <<>> THEN Range(split(got[1], SPACE)) ELSE {}

(***************************************************************************)
(* The checked inputs: every string over a small alphabet, every           *)
(* concatenation of a few markup fragments, an element with every short    *)
(* class attribute, and the examples of the documentation.                 *)
(***************************************************************************)
\* '<' '>' '/' 'a' ' ' and the two-byte U+00E9
CharAlphabet == {LT, GT, SLASH, LowerA, SPACE, 233}

Strings(alphabet, n) == UNION {[1..k -> alphabet] : k \in 0..n}

RECURSIVE Concat(_)
Concat(ss) == IF ss = <<>> THEN <<>> ELSE Head(ss) \o Concat(Tail(ss))

Fragments ==
    { <<LT, LowerA, GT>>,                                      \* <a>
      <<LT, LowerA>>,                                          \* <a
      <<GT>>,                                                  \* >
      <<LT, SLASH, LowerA, GT>>,                               \* </a>
      <<LT, SLASH, UpperA, GT>>,                               \* </A>
      <<SPACE, 98, EQUALS, DQUOTE, 233, SPACE, 49, DQUOTE>>,   \*  b="(U+00E9) 1"
      <<SPACE, 98, EQUALS, SQUOTE, 49, SQUOTE>>,               \*  b='1'
      <<99, EQUALS, SQUOTE, SQUOTE>> }                         \* c=''

\* <a class="v"></a>
ClassElement(v) ==
    <<LT, LowerA, SPACE>> \o ClassKey \o <<EQUALS, DQUOTE>> \o v
        \o <<DQUOTE, GT, LT, SLASH, LowerA, GT>>

Examples ==
    { <<60, 97, 62, 116, 101, 120, 116>>,                      \* <a>text
      <<60, 97, 32, 120, 61, 49, 62>>,                         \* <a x=1>
      <<60, 97, 62, 60, 47, 98, 62>>,                          \* <a></b>
      <<60, 97, 32, 120, 61, 34, 49, 34, 32, 120, 61, 34, 50, 34, 62>>,
                                                               \* <a x="1" x="2">
      <<60, 97, 32, 120, 61, 34, 49, 34, 32, 120, 61, 34, 50, 34, 62,
        60, 47, 97, 62>>,                                      \* <a x="1" x="2"></a>
      <<60, 97, 32, 120, 61, 34, 60, 62>>,                     \* <a x="<>
      <<60, 100, 105, 118, 32, 105, 100, 61, 34, 109, 97, 105, 110, 34, 62,
        60, 112, 62, 72, 105, 60, 47, 112, 62,
        60, 47, 100, 105, 118, 62>> }            \* <div id="main"><p>Hi</p></div>

Inputs ==
    {Utf8(cs) : cs \in Strings(CharAlphabet, MaxLen)}
    \cup {Utf8(Concat(fs)) : fs \in Strings(Fragments, MaxFrags)}
    \cup {Utf8(ClassElement(v)) : v \in Strings({LowerA, 98, SPACE}, MaxClassLen)}
    \cup {Utf8(e) : e \in Examples}

(***************************************************************************)
(* The call stack.  A frame holds the function, the line it stands at and  *)
(* its locals.  `start`, `mark` and `seen` record where a loop began and   *)
(* what it has returned so far; the code does not read them.               *)
(***************************************************************************)
ParseFrame == [fn |-> "parse", pc |-> "L257", nodes |-> <<>>]

ParseNodesFrame(p) == [fn |-> "parse_nodes", pc |-> "L134", nodes |-> <<>>, mark |-> p]

ParseElementFrame ==
    [fn |-> "parse_element", pc |-> "L156", tag_name |-> <<>>, attrs |-> {},
     children |-> <<>>, close |-> <<>>]

ParseTextFrame == [fn |-> "parse_text", pc |-> "L182", data |-> <<>>]

ParseAttributesFrame(p) ==
    [fn |-> "parse_attributes", pc |-> "L235", attrs |-> {}, seen |-> <<>>, mark |-> p]

ParseAttrFrame == [fn |-> "parse_attr", pc |-> "L198", name |-> <<>>, value |-> <<>>]

ParseAttrValueFrame ==
    [fn |-> "parse_attr_value", pc |-> "L217", open_quote |-> 0, value |-> <<>>]

\* Parser::consume_while(predicate) entered with the cursor at p.
ConsumeWhileFrame(pred, quote, p) ==
    [fn |-> "consume_while", pc |-> "L84", pred |-> pred, open_quote |-> quote,
     res |-> <<>>, start |-> p]

\* Parser::consume_whitespace
consume_whitespace(p) == ConsumeWhileFrame("is_whitespace", 0, p)

\* Parser::parse_tag_name
parse_tag_name(p) == ConsumeWhileFrame("tag_name", 0, p)

\* The closure handed to consume_while, applied to the char c.
Predicate(f, c) ==
    CASE f.pred = "is_whitespace" -> is_whitespace(c)
      [] f.pred = "tag_name" -> is_tag_name_char(c)
      [] f.pred = "not_lt" -> c # LT
      [] f.pred = "not_quote" -> c # f.open_quote

\* A dispatch on the wrong char.
parse_node_on_gt(c) == IF c = GT THEN ParseElementFrame ELSE ParseTextFrame

\* Parser::parse_node: the callee chosen on the next char.
parse_node(c) == IF c = LT THEN ParseElementFrame ELSE ParseTextFrame

Top == stack[Len(stack)]

At(fn, pc) == status = "running" /\ Top.fn = fn /\ Top.pc = pc

SetTop(f) == [stack EXCEPT ![Len(stack)] = f]

\* The caller's frame once its callee has returned v.
Continue(c, v) ==
    CASE c.fn = "parse" -> [c EXCEPT !.nodes = v, !.pc = "L260"]
      [] c.fn = "parse_nodes" /\ c.pc = "L134" -> [c EXCEPT !.pc = "L135"]
      [] c.fn = "parse_nodes" /\ c.pc = "L138" ->
            [c EXCEPT !.nodes = Append(c.nodes, v), !.pc = "L134"]
      [] c.fn = "parse_element" /\ c.pc = "L157" -> [c EXCEPT !.tag_name = v, !.pc = "L158"]
      [] c.fn = "parse_element" /\ c.pc = "L158" -> [c EXCEPT !.attrs = v, !.pc = "L159"]
      [] c.fn = "parse_element" /\ c.pc = "L162" -> [c EXCEPT !.children = v, !.pc = "L165"]
      [] c.fn = "parse_element" /\ c.pc = "L167" ->
            [c EXCEPT !.close = <<v>>, !.pc = "L167_assert"]
      [] c.fn = "parse_text" -> [c EXCEPT !.data = v, !.pc = "L182_text"]
      [] c.fn = "parse_attributes" /\ c.pc = "L235" -> [c EXCEPT !.pc = "L236"]
      [] c.fn = "parse_attributes" /\ c.pc = "L239" ->
            [c EXCEPT !.attrs = AttrInsert(c.attrs, v[1], v[2]),
                      !.seen = Append(c.seen, v), !.pc = "L235"]
      [] c.fn = "parse_attr" /\ c.pc = "L198" -> [c EXCEPT !.name = v, !.pc = "L199"]
      [] c.fn = "parse_attr" /\ c.pc = "L200" -> [c EXCEPT !.value = v, !.pc = "L201"]
      [] c.fn = "parse_attr_value" -> [c EXCEPT !.value = v, !.pc = "L220"]

\* The stack after the top frame has returned v to its caller.
Return(v) ==
    LET st == SubSeq(stack, 1, Len(stack) - 1)
    IN  [st EXCEPT ![Len(st)] = Continue(st[Len(st)], v)]

Call(callee) == Append(stack, callee)

Step(newstack, newpos) ==
    /\ stack' = newstack
    /\ pos' = newpos
    /\ steps' = steps + 1
    /\ UNCHANGED <<input, status, panic, result, classes_out>>

\* A panic: the failed assertion or unwrap is recorded by its line.
Abort(where, newpos) ==
    /\ status' = "panic"
    /\ panic' = where
    /\ pos' = newpos
    /\ steps' = steps + 1
    /\ UNCHANGED <<input, stack, result, classes_out>>

\* assert_eq!(self.consume_char(), expected) at line `where`
ExpectChar(expected, where, newstack) ==
    LET r == consume_char(input, pos) IN
    IF r.tag = "panic" THEN Abort("str_index", pos)
    ELSE IF r.ch = expected THEN Step(newstack, r.pos)
    ELSE Abort(where, r.pos)

Init ==
    /\ input \in Inputs
    /\ pos = 0
    /\ stack = <<ParseFrame>>
    /\ status = "running"
    /\ panic = "none"
    /\ result = <<>>
    /\ classes_out = <<>>
    /\ steps = 0

(***************************************************************************)
(* Parser::parse (lines 256-265)                                           *)
(***************************************************************************)
\* Vec::swap_remove(i) on a vector that holds v: the element returned.
swap_remove(v, i) == v[i + 1]

\* A root taken from the first node whenever there is one.
ParseResultFirst(nodes) ==
    IF Len(nodes) >= 1 THEN swap_remove(nodes, 0)
    ELSE element(<<104, 116, 109, 108>>, {}, nodes)

\* What parse returns for the top-level nodes.
ParseResult(nodes) ==
    IF Len(nodes) = 1 THEN swap_remove(nodes, 0)
    ELSE element(<<104, 116, 109, 108>>, {}, nodes)

\* line 257: Parser { pos: 0, input: source }.parse_nodes()
ParseCallNodes ==
    /\ At("parse", "L257")
    /\ Step(Call(ParseNodesFrame(pos)), pos)

\* lines 260-264: the root is returned.  The frame is kept, with `nodes` as
\* parse_nodes returned it.
ParseReturn ==
    /\ At("parse", "L260")
    /\ result' = ParseResult(Top.nodes)
    /\ status' = "done"
    /\ stack' = SetTop([Top EXCEPT !.pc = "L265"])
    /\ steps' = steps + 1
    /\ UNCHANGED <<input, pos, panic, classes_out>>

(***************************************************************************)
(* Parser::consume_while (lines 81-88): one iteration of its loop          *)
(***************************************************************************)
ConsumeWhileStep ==
    /\ At("consume_while", "L84")
    /\ IF eof(input, pos) THEN Step(Return(Top.res), pos)
       ELSE LET n == Peek(input, pos) IN
            IF n.tag = "panic" THEN Abort("str_index", pos)
            ELSE IF n.tag = "none" THEN Abort("L24", pos)
            ELSE IF Predicate(Top, n.ch)
                 THEN LET r == consume_char(input, pos)
                      IN  Step(SetTop([Top EXCEPT !.res = Append(Top.res, r.ch)]), r.pos)
                 ELSE Step(Return(Top.res), pos)

(***************************************************************************)
(* Parser::parse_nodes (lines 131-141)                                     *)
(***************************************************************************)
\* line 134: self.consume_whitespace(), at the head of an iteration
NodesSkipWhitespace ==
    /\ At("parse_nodes", "L134")
    /\ Step(Append(SetTop([Top EXCEPT !.mark = pos]), consume_whitespace(pos)), pos)

\* lines 135-138: break, or parse_node (lines 117-122)
NodesBreakOrParseNode ==
    /\ At("parse_nodes", "L135")
    /\ IF eof(input, pos) THEN Step(Return(Top.nodes), pos)
       ELSE IF ~is_char_boundary(input, pos) THEN Abort("str_index", pos)
       ELSE IF starts_with(input, pos, <<LT, SLASH>>) THEN Step(Return(Top.nodes), pos)
       ELSE LET n == Peek(input, pos) IN
            IF n.tag = "some"
            THEN Step(Append(SetTop([Top EXCEPT !.pc = "L138"]), parse_node(n.ch)), pos)
            ELSE Abort("L24", pos)

(***************************************************************************)
(* Parser::parse_text (lines 181-183)                                      *)
(***************************************************************************)
TextConsume ==
    /\ At("parse_text", "L182")
    /\ Step(Call(ConsumeWhileFrame("not_lt", 0, pos)), pos)

TextReturn ==
    /\ At("parse_text", "L182_text")
    /\ Step(Return(text(Top.data)), pos)

(***************************************************************************)
(* Parser::parse_element (lines 155-171)                                   *)
(***************************************************************************)
ElementOpenLt ==
    /\ At("parse_element", "L156")
    /\ ExpectChar(LT, "L156", SetTop([Top EXCEPT !.pc = "L157"]))

ElementTagName ==
    /\ At("parse_element", "L157")
    /\ Step(Call(parse_tag_name(pos)), pos)

ElementAttributes ==
    /\ At("parse_element", "L158")
    /\ Step(Call(ParseAttributesFrame(pos)), pos)

ElementOpenGt ==
    /\ At("parse_element", "L159")
    /\ ExpectChar(GT, "L159", SetTop([Top EXCEPT !.pc = "L162"]))

ElementChildren ==
    /\ At("parse_element", "L162")
    /\ Step(Call(ParseNodesFrame(pos)), pos)

ElementCloseLt ==
    /\ At("parse_element", "L165")
    /\ ExpectChar(LT, "L165", SetTop([Top EXCEPT !.pc = "L166"]))

ElementCloseSlash ==
    /\ At("parse_element", "L166")
    /\ ExpectChar(SLASH, "L166", SetTop([Top EXCEPT !.pc = "L167"]))

ElementCloseName ==
    /\ At("parse_element", "L167")
    /\ Step(Call(parse_tag_name(pos)), pos)

to_ascii_lowercase(c) == IF c \in UpperA..UpperZ THEN c + 32 ELSE c

\* A comparison that ignores the case of ASCII letters.
ClosingTagMatchesIgnoreCase(close_name, tag_name) ==
    /\ Len(close_name) = Len(tag_name)
    /\ \A i \in DOMAIN tag_name :
          to_ascii_lowercase(close_name[i]) = to_ascii_lowercase(tag_name[i])

\* The comparison of assert_eq!(self.parse_tag_name(), tag_name), line 167.
ClosingTagMatches(close_name, tag_name) == close_name = tag_name

ElementCloseAssert ==
    /\ At("parse_element", "L167_assert")
    /\ IF ClosingTagMatches(Top.close[1], Top.tag_name)
       THEN Step(SetTop([Top EXCEPT !.pc = "L168"]), pos)
       ELSE Abort("L167", pos)

\* lines 168-170
ElementCloseGt ==
    /\ At("parse_element", "L168")
    /\ ExpectChar(GT, "L168", Return(element(Top.tag_name, Top.attrs, Top.children)))

(***************************************************************************)
(* Parser::parse_attributes (lines 232-243)                                *)
(***************************************************************************)
\* line 235, at the head of an iteration
AttributesSkipWhitespace ==
    /\ At("parse_attributes", "L235")
    /\ Step(Append(SetTop([Top EXCEPT !.mark = pos]), consume_whitespace(pos)), pos)

\* lines 236-239: break on '>', or parse_attr
AttributesBreakOrParseAttr ==
    /\ At("parse_attributes", "L236")
    /\ LET n == Peek(input, pos) IN
       IF n.tag = "panic" THEN Abort("str_index", pos)
       ELSE IF n.tag = "none" THEN Abort("L24", pos)
       ELSE IF n.ch = GT THEN Step(Return(Top.attrs), pos)
       ELSE Step(Append(SetTop([Top EXCEPT !.pc = "L239"]), ParseAttrFrame), pos)

(***************************************************************************)
(* Parser::parse_attr (lines 197-202)                                      *)
(***************************************************************************)
AttrName ==
    /\ At("parse_attr", "L198")
    /\ Step(Call(parse_tag_name(pos)), pos)

AttrEquals ==
    /\ At("parse_attr", "L199")
    /\ ExpectChar(EQUALS, "L199", SetTop([Top EXCEPT !.pc = "L200"]))

AttrValue ==
    /\ At("parse_attr", "L200")
    /\ Step(Call(ParseAttrValueFrame), pos)

AttrReturn ==
    /\ At("parse_attr", "L201")
    /\ Step(Return(<<Top.name, Top.value>>), pos)

(***************************************************************************)
(* Parser::parse_attr_value (lines 216-222)                                *)
(***************************************************************************)
\* lines 217-218
AttrValueOpenQuote ==
    /\ At("parse_attr_value", "L217")
    /\ LET r == consume_char(input, pos) IN
       IF r.tag = "panic" THEN Abort("str_index", pos)
       ELSE IF r.ch = DQUOTE \/ r.ch = SQUOTE
       THEN Step(SetTop([Top EXCEPT !.open_quote = r.ch, !.pc = "L219"]), r.pos)
       ELSE Abort("L218", r.pos)

AttrValueConsume ==
    /\ At("parse_attr_value", "L219")
    /\ Step(Call(ConsumeWhileFrame("not_quote", Top.open_quote, pos)), pos)

\* lines 220-221
AttrValueCloseQuote ==
    /\ At("parse_attr_value", "L220")
    /\ ExpectChar(Top.open_quote, "L220", Return(Top.value))

(***************************************************************************)
(* ElementData::classes, asked of an element of the returned tree          *)
(***************************************************************************)
RECURSIVE Nodes(_)
\* The nodes of the tree under n, n included.
Nodes(n) == {n} \cup UNION {Nodes(n.children[i]) : i \in DOMAIN n.children}

Elements(n) == {e \in Nodes(n) : e.node_type = "Element"}

QueryClasses ==
    /\ status = "done"
    /\ classes_out = <<>>
    /\ \E e \in Elements(result) :
          classes_out' = <<[attributes |-> e.attributes, classes |-> classes(e.attributes)]>>
    /\ UNCHANGED <<input, pos, stack, status, panic, result, steps>>

Next ==
    \/ ParseCallNodes
    \/ ParseReturn
    \/ ConsumeWhileStep
    \/ NodesSkipWhitespace
    \/ NodesBreakOrParseNode
    \/ TextConsume
    \/ TextReturn
    \/ ElementOpenLt
    \/ ElementTagName
    \/ ElementAttributes
    \/ ElementOpenGt
    \/ ElementChildren
    \/ ElementCloseLt
    \/ ElementCloseSlash
    \/ ElementCloseName
    \/ ElementCloseAssert
    \/ ElementCloseGt
    \/ AttributesSkipWhitespace
    \/ AttributesBreakOrParseAttr
    \/ AttrName
    \/ AttrEquals
    \/ AttrValue
    \/ AttrReturn
    \/ AttrValueOpenQuote
    \/ AttrValueConsume
    \/ AttrValueCloseQuote
    \/ QueryClasses

Spec == Init /\ [][Next]_vars

(***************************************************************************)
(* Properties                                                              *)
(***************************************************************************)
Frames(fn) == {stack[i] : i \in {j \in DOMAIN stack : stack[j].fn = fn}}

TextNodes(n) == {t \in Nodes(n) : t.node_type = "Text"}

\* C1: when parse returns, a single top-level node is the root itself (a Text
\* node too); zero or several top-level nodes are the children, in order, of
\* an Element "html" with no attributes.
C1_RootOrWrapper ==
    status = "done" =>
        LET nodes == stack[1].nodes IN
        IF Len(nodes) = 1 THEN result = nodes[1]
        ELSE /\ result.node_type = "Element"
             /\ result.tag_name = <<104, 116, 109, 108>>
             /\ result.attributes = {}
             /\ result.children = nodes

C1_Witness ==
    /\ status = "done"
    /\ Len(stack[1].nodes) = 2
    /\ stack[1].nodes[1].node_type = "Text"
    /\ stack[1].nodes[2].node_type = "Element"
    /\ result.children = stack[1].nodes

\* C2: a malformed input surfaces a typed, recoverable failure and never a
\* crash: no parse ends in a panic.
C2_NoPanic == status # "panic"

\* C3: parse_element goes on to return its Element only if the name scanned
\* after "</" equals the opening name, case-sensitively; once the two names
\* differ the parse fails at the assertion of line 167 (the mismatched
\* closing tag) and no tree is returned.
C3_ClosingTagInv ==
    \A f \in Frames("parse_element") :
        /\ f.pc = "L168" => f.close = <<f.tag_name>>
        /\ (f.close # <<>> /\ f.close # <<f.tag_name>>) =>
              /\ f.pc = "L167_assert"
              /\ status \in {"running", "panic"}
              /\ status = "panic" => panic = "L167"
              /\ result = <<>>

C3_ClosingTagStep ==
    (/\ At("parse_element", "L167_assert")
     /\ Top.close # <<Top.tag_name>>)
        => (status' = "panic" /\ panic' = "L167" /\ result' = <<>>)

\* C3: an Element is returned only when the closing name equals the opening
\* name, and a differing closing name makes the very next step the failure of
\* line 167, with no tree returned.
C3_ClosingTag == []C3_ClosingTagInv /\ [][C3_ClosingTagStep]_vars

C3_Witness ==
    /\ status = "panic"
    /\ panic = "L167"
    /\ Top.tag_name = <<LowerA>>
    /\ Top.close = << <<UpperA>> >>

\* The map that sends each name of the pairs to the value of its last pair.
LastOccurrences(pairs) ==
    {pairs[i] : i \in {j \in DOMAIN pairs :
                          \A k \in DOMAIN pairs : k > j => pairs[k][1] # pairs[j][1]}}

\* C4: the map parse_attributes builds sends each attribute name to the
\* value of its last occurrence in the tag, whatever the order of the names.
C4_LastWins ==
    \A f \in Frames("parse_attributes") : f.attrs = LastOccurrences(f.seen)

C4_Witness ==
    /\ At("parse_attributes", "L236")
    /\ Len(Top.seen) = 2
    /\ Top.seen[1][1] = Top.seen[2][1]
    /\ Top.seen[1][2] # Top.seen[2][2]
    /\ Top.attrs = {Top.seen[2]}
    /\ Peek(input, pos).ch = GT

\* The pieces of v between its single spaces.
Tokens(v) ==
    {SubSeq(v, i, j) : <<i, j>> \in
        {w \in (1..Len(v) + 1) \X (0..Len(v)) :
            /\ w[1] <= w[2] + 1
            /\ (w[1] = 1 \/ v[w[1] - 1] = SPACE)
            /\ (w[2] = Len(v) \/ v[w[2] + 1] = SPACE)
            /\ \A k \in w[1]..w[2] : v[k] # SPACE}}

\* C5: classes() is empty when the "class" attribute is absent or its value
\* is empty, and is otherwise the set of the pieces between single spaces.
C5_Classes ==
    classes_out # <<>> =>
        LET q == classes_out[1]
            absent == \A p \in q.attributes : p[1] # ClassKey
            value == (CHOOSE p \in q.attributes : p[1] = ClassKey)[2]
        IN  IF absent THEN q.classes = {}
            ELSE IF value = <<>> THEN q.classes = {}
            ELSE q.classes = Tokens(value)

\* C6: the cursor stays within the input and on a char boundary, never
\* decreases, moves by the full width of the char it passes, and what
\* consume_while has collected is the slice of the input it passed over.
C6_CursorInv ==
    /\ pos <= Len(input)
    /\ is_char_boundary(input, pos)
    /\ \A f \in Frames("consume_while") :
          Utf8(f.res) = SubSeq(input, f.start + 1, pos)

C6_CursorStep ==
    \/ pos' = pos
    \/ /\ pos < Len(input)
       /\ pos' = pos + (IF input[pos + 1] < 128 THEN 1
                        ELSE IF input[pos + 1] < 224 THEN 2
                        ELSE IF input[pos + 1] < 240 THEN 3 ELSE 4)

\* C6: in every state the cursor is within the input, on a char boundary and
\* consistent with what consume_while collected; in every step it does not
\* decrease and moves by nothing or by the width of the char it stood on.
C6_Cursor == []C6_CursorInv /\ [][pos' >= pos /\ C6_CursorStep]_vars

C6_Witness ==
    /\ At("consume_while", "L84")
    /\ Top.pred = "not_quote"
    /\ Top.res = <<233, SPACE, 49>>
    /\ pos = Top.start + 4

\* C7: every Element of a returned tree has a non-empty tag name of ASCII
\* letters and digits.
C7_TagNames ==
    status = "done" =>
        \A e \in Elements(result) :
            /\ e.tag_name # <<>>
            /\ \A i \in DOMAIN e.tag_name :
                  e.tag_name[i] \in (48..57) \cup (65..90) \cup (97..122)

\* C8: parse_text starts at a char that is neither '<' nor whitespace, so a
\* Text node of a returned tree is non-empty, holds no '<', does not begin
\* with whitespace and has no children.
C8_Text ==
    /\ At("parse_text", "L182") =>
          /\ Peek(input, pos).tag = "some"
          /\ Peek(input, pos).ch # LT
          /\ ~is_whitespace(Peek(input, pos).ch)
    /\ status = "done" =>
          \A t \in TextNodes(result) :
              /\ t.data # <<>>
              /\ \A i \in DOMAIN t.data : t.data[i] # LT
              /\ ~is_whitespace(t.data[1])
              /\ t.children = <<>>

C8_Witness ==
    /\ status = "done"
    /\ result.node_type = "Text"
    /\ input # <<>>
    /\ is_whitespace(input[1])
    /\ result.data = <<LowerA, SPACE, 233>>

\* C9: when parse returns a tree the cursor is at the end of the input.
C9_AllConsumed == status = "done" => pos = Len(input)

\* The steps a parse of n bytes takes at most.
StepBound(n) == 7 * n + 6

\* C10: every iteration of the loops of parse_nodes, parse_attributes and
\* consume_while has moved the cursor forward, a running parse always has a
\* next step, and the parse ends within a number of steps linear in the
\* length of the input.
C10_Progress ==
    /\ (Top.fn = "parse_nodes" /\ Top.pc = "L134" /\ Top.nodes # <<>>) => pos > Top.mark
    /\ (Top.fn = "parse_attributes" /\ Top.pc = "L235" /\ Top.seen # <<>>) => pos > Top.mark
    /\ \A f \in Frames("consume_while") : pos >= f.start + Len(f.res)
    /\ status = "running" => ENABLED Next
    /\ steps <= StepBound(Len(input))

C10_Witness ==
    /\ At("parse_attributes", "L235")
    /\ Len(Top.seen) = 2
    /\ pos > Top.mark
    /\ pos < Len(input)

====
